---------------------------- MODULE Spec2Model ----------------------------
(***************************************************************************)
(* A model of the rail network of mousetail/Crates: src/src/track.rs,      *)
(* src/src/track_shape.rs and src/src/minivec.rs.                          *)
(*                                                                         *)
(* Numbers.  The program computes in f32.  Here an f32 value v is the      *)
(* integer round(v * SCALE): a fixed-point number with a resolution of     *)
(* 1/SCALE = 4e-6, which is the spacing of f32 values between 32 and 64,   *)
(* the magnitude of the coordinates generate_network uses.  Every product, *)
(* quotient, square root and trigonometric function is rounded to that     *)
(* resolution, as the f32 operations round to theirs.  Integers of TLC are *)
(* 32 bits wide, so products and quotients are computed in parts.          *)
(***************************************************************************)
EXTENDS Integers, Sequences, FiniteSets, TLC

\* One unit of length (or one radian) in fixed-point ticks.
SCALE == 250000

\* SCALE = BASE * BASE: the factors a product is split into.
BASE == 500

\* SCALE as the product of the factors a long division goes through.
DivFactors == <<10, 10, 10, 10, 5, 5>>

Abs(a) == IF a < 0 THEN -a ELSE a

\* f32 multiplication a * b, rounded to the nearest tick.
Mul[a \in Int, b \in Int] ==
    LET a1 == a \div BASE
        a0 == a % BASE
        b1 == b \div BASE
        b0 == b % BASE
    IN  a1 * b1 + (a1 * b0 + a0 * b1 + (a0 * b0 + SCALE \div 2) \div BASE) \div BASE

\* a * b rounded down: used to decide r * r <= v exactly enough for Sqrt.
MulFloor[a \in Int, b \in Int] ==
    LET a1 == a \div BASE
        a0 == a % BASE
        b1 == b \div BASE
        b0 == b % BASE
    IN  a1 * b1 + (a1 * b0 + a0 * b1 + (a0 * b0) \div BASE) \div BASE

\* round(n * w / d) for n >= 0, d > 0, by long division; w is the product of
\* DivFactors[k+1 ..].
DivPos[n \in Int, d \in Int, k \in Int, w \in Int] ==
    LET q == n \div d
        r == n % d
    IN  IF k = Len(DivFactors)
        THEN q + (IF 2 * r >= d THEN 1 ELSE 0)
        ELSE q * w + DivPos[r * DivFactors[k + 1], d, k + 1, w \div DivFactors[k + 1]]

\* f32 division a / b (b # 0), rounded to the nearest tick.
Div[a \in Int, b \in Int] ==
    LET s == IF (a < 0) # (b < 0) THEN -1 ELSE 1
    IN  s * DivPos[Abs(a), Abs(b), 0, SCALE]

\* The largest r in lo..hi with r * r <= v.
SqrtSearch[v \in Int, lo \in Int, hi \in Int] ==
    IF lo >= hi THEN lo
    ELSE LET mid == (lo + hi + 1) \div 2
         IN  IF MulFloor[mid, mid] <= v
             THEN SqrtSearch[v, mid, hi]
             ELSE SqrtSearch[v, lo, mid - 1]

\* f32::sqrt for v >= 0.
Sqrt[v \in Int] == SqrtSearch[v, 0, 23170000]

\* std::f32::consts, in ticks.
FRAC_PI_2 == 392699
PI == 785398
TAU == 1570796
FRAC_PI_4 == 196350

\* The divisors (2k)(2k+1) and (2k-1)(2k) of the Taylor series of sin and cos,
\* from the innermost term of Horner's rule outwards.
SinTerms == <<156, 110, 72, 42, 20, 6>>
CosTerms == <<132, 90, 56, 30, 12, 2>>

RECURSIVE Horner(_, _, _, _)
\* Horner's rule for 1 - x2/t[n] (1 - x2/t[n-1] (...)), from term k on.
Horner(x2, terms, k, acc) ==
    IF k > Len(terms) THEN acc
    ELSE Horner(x2, terms, k + 1, SCALE - Mul[Div[x2, terms[k] * SCALE], acc])

\* sin x (odd) or cos x (not odd) for |x| <= pi/4 or so, by the Taylor
\* polynomial to x^13 or x^12.
Taylor(x, odd) ==
    IF odd THEN Mul[x, Horner(Mul[x, x], SinTerms, 1, SCALE)]
    ELSE Horner(Mul[x, x], CosTerms, 1, SCALE)

\* An angle reduced to (-PI, PI].
Wrap(a) == IF (a % TAU) > PI THEN (a % TAU) - TAU ELSE a % TAU

\* sin and cos on [0, pi/2]: beyond pi/4 by the other series on pi/2 - r.
SinQ(r) == Taylor(IF r > FRAC_PI_4 THEN FRAC_PI_2 - r ELSE r, r <= FRAC_PI_4)
CosQ(r) == Taylor(IF r > FRAC_PI_4 THEN FRAC_PI_2 - r ELSE r, r > FRAC_PI_4)

\* sin and cos on [0, pi], by the symmetry about pi/2.
SinH(r) == SinQ(IF r > FRAC_PI_2 THEN PI - r ELSE r)
CosH(r) == (IF r > FRAC_PI_2 THEN -1 ELSE 1) * CosQ(IF r > FRAC_PI_2 THEN PI - r ELSE r)

\* f32::sin and f32::cos.
Sin[a \in Int] == (IF Wrap(a) < 0 THEN -1 ELSE 1) * SinH(Abs(Wrap(a)))
Cos[a \in Int] == CosH(Abs(Wrap(a)))

\* The coefficients 1/(2k+1) of the Taylor series of atan, innermost first.
AtanTerms == <<13, 11, 9, 7, 5, 3>>

RECURSIVE AtanHorner(_, _, _)
\* Horner's rule for 1/3 - u2 (1/5 - u2 (...)), from term k on.
AtanHorner(u2, k, acc) ==
    IF k > Len(AtanTerms) THEN acc
    ELSE AtanHorner(u2, k + 1, Div[SCALE, AtanTerms[k] * SCALE] - Mul[u2, acc])

\* atan of tan(2 atan u), for the half angle u.
AtanHalf(u) == 2 * Mul[u, SCALE - Mul[Mul[u, u], AtanHorner(Mul[u, u], 1, Div[SCALE, 15 * SCALE])]]

\* atan t for 0 <= t <= 1: one halving of the angle, then the Taylor polynomial.
AtanT(t) == AtanHalf(Div[t, SCALE + Sqrt[SCALE + Mul[t, t]]])

\* atan2 in the first quadrant, for ay, ax >= 0 that are not both 0.
AtanQ(ay, ax) ==
    (IF ay <= ax THEN 0 ELSE FRAC_PI_2)
    + (IF ay <= ax THEN 1 ELSE -1)
      * AtanT(IF ay <= ax THEN Div[ay, ax] ELSE Div[ax, ay])

\* atan2 from the angle in the first quadrant.
AtanSigned(y, x, base) ==
    IF x >= 0 THEN (IF y >= 0 THEN base ELSE -base)
    ELSE (IF y >= 0 THEN PI - base ELSE base - PI)

\* f32::atan2(y, x), in (-PI, PI].
Atan2[y \in Int, x \in Int] ==
    IF x = 0 /\ y = 0 THEN 0
    ELSE AtanSigned(y, x, AtanQ(Abs(y), Abs(x)))

\* f32::signum: 1.0 for a positive number or +0.0, -1.0 for a negative one.
Signum(a) == IF a >= 0 THEN SCALE ELSE -SCALE

(***************************************************************************)
(* glam::Vec2                                                              *)
(***************************************************************************)
Vec2(x, y) == [x |-> x, y |-> y]
VAdd(a, b) == Vec2(a.x + b.x, a.y + b.y)
VSub(a, b) == Vec2(a.x - b.x, a.y - b.y)
VNeg(a) == Vec2(-a.x, -a.y)
VScale(a, k) == Vec2(Mul[a.x, k], Mul[a.y, k])
Dot(a, b) == Mul[a.x, b.x] + Mul[a.y, b.y]
VLength(a) == Sqrt[Dot(a, a)]
VDistance(a, b) == VLength(VSub(a, b))
\* a / l, componentwise.
VDivide(a, l) == Vec2(Div[a.x, l], Div[a.y, l])
\* Vec2::normalize of a vector that is not zero.
Normalize(a) == VDivide(a, VLength(a))
Perp(a) == Vec2(-a.y, a.x)
ToAngle(a) == Atan2[a.y, a.x]
FromAngle(t) == Vec2(Cos[t], Sin[t])


(***************************************************************************)
(* The state.  junctions, tracks, trains and stations are the four vectors *)
(* of Network; ids are indices from 0, so junction j is junctions[j + 1].  *)
(***************************************************************************)
VARIABLES
    junctions,          \* Network::junctions
    tracks,             \* Network::tracks
    trains,             \* Network::trains
    stations,           \* Network::stations
    panicked,           \* the process has aborted in a panic
    debug_assertions,   \* the build profile: cfg(debug_assertions)
    pc,                 \* "build" while main builds the network, then "loop"
    last,               \* the last call: [op, args, ret, depth]
    positions,          \* what the last call of train_positions returned
    updates             \* how many calls of update there have been

vars == <<junctions, tracks, trains, stations, panicked, debug_assertions, pc,
          last, positions, updates>>

(***************************************************************************)
(* TrackShape (track_shape.rs)                                             *)
(***************************************************************************)
Line(source, direction, length) ==
    [kind |-> "Line", source |-> source, direction |-> direction, length |-> length]

Arc(start_angle, angle_diff, radius, center) ==
    [kind |-> "Arc", start_angle |-> start_angle, angle_diff |-> angle_diff,
     radius |-> radius, center |-> center]

get_length(shape) ==
    IF shape.kind = "Line" THEN shape.length
    ELSE Abs(Mul[shape.angle_diff, shape.radius])

\* The (position, heading) on an Arc at the angle `angle` about its center.
arc_transform(shape, angle) ==
    [position |-> VAdd(shape.center, VScale(FromAngle(angle), shape.radius)),
     heading |-> angle + Mul[FRAC_PI_2, Signum(shape.angle_diff)]]

\* get_transform_at_distance: the pair (position, heading) as a record.
get_transform_at_distance(shape, distance) ==
    IF shape.kind = "Line"
    THEN [position |-> VAdd(shape.source, VScale(shape.direction, distance)),
          heading |-> ToAngle(shape.direction)]
    ELSE arc_transform(shape, Div[Mul[distance, Signum(shape.angle_diff)], shape.radius]
                              + shape.start_angle)

subshape(shape, from, to) ==
    IF shape.kind = "Line"
    THEN Line(VAdd(shape.source, VScale(shape.direction, from)), shape.direction, to - from)
    ELSE Arc(shape.start_angle + Mul[Div[from, shape.radius], Signum(shape.angle_diff)],
             Mul[Div[to - from, shape.radius], Signum(shape.angle_diff)],
             shape.radius, shape.center)

\* A reverse that turns the direction round and keeps the start.
reverse_from_start(shape) ==
    IF shape.kind = "Line"
    THEN Line(shape.source, VNeg(shape.direction), shape.length)
    ELSE Arc(shape.start_angle, -shape.angle_diff, shape.radius, shape.center)

reverse(shape) ==
    IF shape.kind = "Line"
    THEN Line(VAdd(shape.source, VScale(shape.direction, shape.length)),
              VNeg(shape.direction), shape.length)
    ELSE Arc(shape.start_angle + shape.angle_diff, -shape.angle_diff,
             shape.radius, shape.center)

\* 0.001, below which from_source_direction_dest takes the track for straight,
\* and 0.01, the tolerance of assert_sanity.
Epsilon == SCALE \div 1000
Tolerance == SCALE \div 100

\* The four assertions of assert_sanity: TRUE when none of them fails.
assert_sanity(shape, source, destination, source_direction) ==
    /\ VDistance(get_transform_at_distance(shape, 0).position, source) < Tolerance
    /\ Dot(VSub(get_transform_at_distance(shape, Div[get_length(shape), 6 * SCALE]).position,
                source),
           source_direction) > 0
    /\ VDistance(get_transform_at_distance(shape, get_length(shape)).position, destination)
           < Tolerance
    /\ VDistance(FromAngle(get_transform_at_distance(shape, 0).heading), source_direction)
           < Tolerance

\* The Arc of from_source_direction_dest, from its circle_center on.
arc_about(source, destination, signed_radius, circle_center, initial_angle, final_angle) ==
    Arc(initial_angle,
        IF signed_radius < 0
        THEN ((final_angle - initial_angle) % TAU) - TAU
        ELSE (final_angle - initial_angle) % TAU,
        Abs(signed_radius), circle_center)

\* The Arc of from_source_direction_dest, from its signed_radius on.
arc_of_radius(source, direction_to_center, destination, signed_radius, circle_center) ==
    arc_about(source, destination, signed_radius, circle_center,
              ToAngle(VSub(source, circle_center)),
              ToAngle(VSub(destination, circle_center)))

\* The shape of from_source_direction_dest, from its x and y on.
shape_of_xy(source, source_direction, destination, y, signed_radius) ==
    IF Abs(y) < Epsilon
    THEN Line(source, source_direction, VLength(VSub(destination, source)))
    ELSE arc_of_radius(source, Perp(source_direction), destination, signed_radius,
                       VAdd(source, VScale(Perp(source_direction), signed_radius)))

\* x * x + y * y over 2 y, computed only when y is not close to 0.
signed_radius_of(x, y) == Div[Mul[x, x] + Mul[y, y], 2 * y]

\* The shape from_source_direction_dest builds, before its debug assertions.
shape_from_source_direction_dest(source, source_direction, total_distance) ==
    shape_of_xy(source, source_direction, VAdd(source, total_distance),
                Dot(total_distance, Perp(source_direction)),
                signed_radius_of(Dot(total_distance, source_direction),
                                 Dot(total_distance, Perp(source_direction))))

\* The result of from_source_direction_dest for the shape it has built.
checked_shape(debug, shape, source, source_direction, destination) ==
    [ok |-> \/ shape.kind = "Line"
            \/ ~debug
            \/ assert_sanity(shape, source, destination, source_direction),
     shape |-> shape]

\* from_source_direction_dest: [ok, shape]; ok is FALSE when a debug build
\* (debug = cfg(debug_assertions)) panics in assert_sanity; a Line is returned
\* before the assertions.
from_source_direction_dest(debug, source, source_direction, destination) ==
    checked_shape(debug,
                  shape_from_source_direction_dest(source, source_direction,
                                                   VSub(destination, source)),
                  source, source_direction, destination)

(***************************************************************************)
(* Minivec (minivec.rs)                                                    *)
(***************************************************************************)
\* SIZE of Minivec<2, TrackID>.
MINIVEC_SIZE == 2

\* TrackID::default().
DefaultTrackID == 0

Minivec_new == [length |-> 0, inner |-> [i \in 1..MINIVEC_SIZE |-> DefaultTrackID]]

Minivec_len(mv) == mv.length

\* A push that drops the item when the Minivec is full, and reports Ok.
Minivec_push_dropping(mv, item) ==
    IF mv.length >= MINIVEC_SIZE
    THEN [ok |-> TRUE, mv |-> mv]
    ELSE [ok |-> TRUE,
          mv |-> [length |-> mv.length + 1,
                  inner |-> [mv.inner EXCEPT ![mv.length + 1] = item]]]

\* push: [ok, mv]; ok is FALSE for Err(item), and then mv is unchanged.
Minivec_push(mv, item) ==
    IF mv.length >= MINIVEC_SIZE
    THEN [ok |-> FALSE, mv |-> mv]
    ELSE [ok |-> TRUE,
          mv |-> [length |-> mv.length + 1,
                  inner |-> [mv.inner EXCEPT ![mv.length + 1] = item]]]

\* Index::index for an index below len (the caller decides the panic).
Minivec_index(mv, index) == mv.inner[index + 1]

\* The items of a Minivec, as the iterator yields them.
Minivec_items(mv) == [i \in 1..mv.length |-> mv.inner[i]]

(***************************************************************************)
(* Network (track.rs).  The operations are functions of a network value    *)
(* net = [junctions, tracks, trains, stations, panicked] and give          *)
(* [net, ret]: the network after the call and the value returned.  Once    *)
(* net.panicked is set the rest of the call is skipped, as unwinding does. *)
(***************************************************************************)
MAX_RADIUS == 4 * SCALE
IDEAL_SEGMENT_LENGTH == 3 * SCALE

\* Option<Vec2>: None is the empty sequence, Some(v) is <<v>>.
None == <<>>
Some(v) == <<v>>
IsSome(o) == Len(o) > 0
Unwrap(o) == o[1]
\* An insert that overwrites the value the option holds.
insert_over(o, v) == Some(v)
\* Option::get_or_insert: the option afterwards.
get_or_insert(o, v) == IF IsSome(o) THEN o ELSE Some(v)

EmptyNetwork ==
    [junctions |-> <<>>, tracks |-> <<>>, trains |-> <<>>, stations |-> <<>>,
     panicked |-> FALSE]

Panic(net) == [net EXCEPT !.panicked = TRUE]

add_junction(net, position) ==
    [net |-> [net EXCEPT !.junctions =
                 Append(@, [id |-> Len(net.junctions),
                            position |-> position,
                            enterances |-> Minivec_new,
                            exits |-> Minivec_new,
                            direction |-> None])],
     ret |-> Len(net.junctions)]

\* assert_correctness returns at once: its checks are dead code.
assert_correctness(net) == net

\* The Track add_track_segment builds.
new_track(track_id, source_id, destination_id, shape) ==
    [source |-> source_id,
     destiation |-> destination_id,
     trains |-> <<>>,
     length |-> get_length(shape),
     id |-> track_id,
     shape |-> shape]

\* add_track_segment that enters the track in the exits of its source only.
track_pushed_one_way(net, pushExit, pushEnter, source_id, destination_id, shape) ==
    IF ~pushExit.ok THEN [net |-> Panic(net), ret |-> Len(net.tracks)]
    ELSE [net |-> [net EXCEPT !.junctions[source_id + 1].exits = pushExit.mv,
                              !.tracks = Append(@, new_track(Len(net.tracks), source_id,
                                                             destination_id, shape))],
          ret |-> Len(net.tracks)]

\* add_track_segment after the two pushes: either unwrap may panic, the first
\* before the second push is made.
track_pushed(net, pushExit, pushEnter, source_id, destination_id, shape) ==
    IF ~pushExit.ok THEN [net |-> Panic(net), ret |-> Len(net.tracks)]
    ELSE IF ~pushEnter.ok
    THEN [net |-> Panic([net EXCEPT !.junctions[source_id + 1].exits = pushExit.mv]),
          ret |-> Len(net.tracks)]
    ELSE [net |-> [net EXCEPT !.junctions[source_id + 1].exits = pushExit.mv,
                              !.junctions[destination_id + 1].enterances = pushEnter.mv,
                              !.tracks = Append(@, new_track(Len(net.tracks), source_id,
                                                             destination_id, shape))],
          ret |-> Len(net.tracks)]

add_track_segment(net, source_id, destination_id, shape) ==
    track_pushed(net,
                 Minivec_push(net.junctions[source_id + 1].exits, Len(net.tracks)),
                 Minivec_push(net.junctions[destination_id + 1].enterances, Len(net.tracks)),
                 source_id, destination_id, shape)

\* floor(q) as usize, at least 1, for the quotient q = length / IDEAL_SEGMENT_LENGTH.
floor_max_1(q) == IF q \div SCALE > 1 THEN q \div SCALE ELSE 1

\* ceil(q) as usize, at least 1.
ceil_max_1(q) == IF (q + SCALE - 1) \div SCALE > 1 THEN (q + SCALE - 1) \div SCALE ELSE 1

\* number_of_segments with ceil for floor.
number_of_segments_ceil(length) == ceil_max_1(Div[length, IDEAL_SEGMENT_LENGTH])

\* number_of_segments of add_track.
number_of_segments(length) == floor_max_1(Div[length, IDEAL_SEGMENT_LENGTH])

\* The direction add_track assigns to the junction it has just added.
add_directed_junction(added, direction) ==
    [net |-> [added.net EXCEPT !.junctions[added.ret + 1].direction = Some(direction)],
     ret |-> added.ret]

\* The junction add_track adds where it cuts the shape.
cut_junction(net, transform) ==
    add_directed_junction(add_junction(net, transform.position),
                          FromAngle(transform.heading))

\* destination_id of iteration seg of add_track: [net, ret].
segment_destination(net, shape, destination_id, n, segment_length, seg) ==
    IF seg = n - 1 THEN [net |-> net, ret |-> destination_id]
    ELSE cut_junction(net, get_transform_at_distance(shape, (seg + 1) * segment_length))

\* The add_track_segment of iteration seg, to the destination dest = [net, ret].
segment_to(dest, shape, segment_length, seg, last_segment) ==
    [segment |-> add_track_segment(dest.net, last_segment, dest.ret,
                     subshape(shape, seg * segment_length, (seg + 1) * segment_length)),
     destination_id |-> dest.ret]

RECURSIVE add_track_loop(_, _, _, _, _, _, _, _)
\* The end of iteration seg of add_track, and the iterations after it.
add_track_next(made, shape, destination_id, n, segment_length, seg, first_segment) ==
    add_track_loop(made.segment.net, shape, destination_id, n, segment_length, seg + 1,
                   made.destination_id,
                   IF made.segment.net.panicked THEN first_segment
                   ELSE get_or_insert(first_segment, made.segment.ret))

\* The loop of add_track from iteration seg on; first_segment is an Option.
add_track_loop(net, shape, destination_id, n, segment_length, seg, last_segment, first_segment) ==
    IF seg >= n \/ net.panicked
    THEN [net |-> net, ret |-> first_segment]
    ELSE add_track_next(segment_to(segment_destination(net, shape, destination_id, n,
                                                       segment_length, seg),
                                   shape, segment_length, seg, last_segment),
                        shape, destination_id, n, segment_length, seg, first_segment)

\* first_segment.unwrap() after the loop of add_track.
add_track_return(done) ==
    IF done.net.panicked THEN [net |-> done.net, ret |-> 0]
    ELSE [net |-> done.net, ret |-> Unwrap(done.ret)]

\* add_track from its number_of_segments on.
add_track_segments(net, source_id, destination_id, shape, length, n) ==
    add_track_return(add_track_loop(net, shape, destination_id, n, Div[length, n * SCALE],
                                    0, source_id, None))

add_track(net, source_id, destination_id, shape) ==
    add_track_segments(net, source_id, destination_id, shape, get_length(shape),
                       number_of_segments(get_length(shape)))

\* create_line without its two get_or_insert calls.
line_without_directions(track, source_id, destination_id, angle) == track

\* The two get_or_insert calls of create_line, after its add_track.
line_directions(track, source_id, destination_id, angle) ==
    IF track.net.panicked THEN track
    ELSE [net |-> [track.net EXCEPT
                      !.junctions[source_id + 1].direction = get_or_insert(@, angle),
                      !.junctions[destination_id + 1].direction = get_or_insert(@, angle)],
          ret |-> track.ret]

\* create_line from its angle on.
line_at_angle(net, source_id, destination_id, angle, length) ==
    line_directions(add_track(net, source_id, destination_id,
                              Line(net.junctions[source_id + 1].position, angle, length)),
                    source_id, destination_id, angle)

create_line(net, source_id, destination_id) ==
    line_at_angle(net, source_id, destination_id,
                  Normalize(VSub(net.junctions[destination_id + 1].position,
                                 net.junctions[source_id + 1].position)),
                  VLength(VSub(net.junctions[destination_id + 1].position,
                               net.junctions[source_id + 1].position)))

\* The sign pairs of the bend, in the order the iterator yields them.
BendSigns == << <<-SCALE, -SCALE>>, <<-SCALE, SCALE>>, <<SCALE, -SCALE>>, <<SCALE, SCALE>> >>

\* The test of the closure of filter_map in connect_track.
bend_filter(source, destiation, midpoint_1, midpoint_2, target_direction_vector) ==
    IF /\ Dot(VSub(midpoint_1, source.position), target_direction_vector) > 0
       /\ Dot(VSub(midpoint_2, midpoint_1), target_direction_vector) > 0
       /\ Dot(VSub(destiation.position, midpoint_2), target_direction_vector) > 0
    THEN Some(<<midpoint_1, midpoint_2>>)
    ELSE None

\* The closure from its direction on.
bend_midpoints(source, destiation, c1, c2, direction, sign_1, sign_2) ==
    bend_filter(source, destiation,
                VSub(c1, VScale(VScale(Perp(direction), MAX_RADIUS), sign_1)),
                VSub(c2, VScale(VScale(Perp(direction), MAX_RADIUS), sign_2)),
                VSub(destiation.position, source.position))

\* The closure from c1 and c2 on.  A zero c2 - c1 normalizes to NaN, and no
\* comparison with NaN holds.
bend_centers(source, destiation, c1, c2, sign_1, sign_2) ==
    IF VLength(VSub(c2, c1)) = 0 THEN None
    ELSE bend_midpoints(source, destiation, c1, c2, Normalize(VSub(c2, c1)),
                        sign_1, sign_2)

\* The closure of filter_map in connect_track: Some((midpoint_1, midpoint_2))
\* or None.
bend_candidate(source, destiation, a1, a2, sign_1, sign_2) ==
    bend_centers(source, destiation,
                 VAdd(source.position, VScale(VScale(Perp(a1), sign_1), MAX_RADIUS)),
                 VAdd(destiation.position, VScale(VScale(Perp(a2), sign_2), MAX_RADIUS)),
                 sign_1, sign_2)

RECURSIVE bend_search(_, _, _, _, _)
\* The candidate found, or the search from the next sign pair on.
bend_found(source, destiation, a1, a2, k, found) ==
    IF IsSome(found) THEN found
    ELSE bend_search(source, destiation, a1, a2, k + 1)

\* .next() of the filtered iterator: the first candidate from BendSigns[k] on.
bend_search(source, destiation, a1, a2, k) ==
    IF k > Len(BendSigns) THEN None
    ELSE bend_found(source, destiation, a1, a2, k,
                    bend_candidate(source, destiation, a1, a2,
                                   BendSigns[k][1], BendSigns[k][2]))

\* The case (Some, None) of connect_track, for made = [ok, shape], the result
\* of from_source_direction_dest.
connect_from_source(net, source_id, destination_id, made) ==
    IF ~made.ok THEN [net |-> Panic(net), ret |-> 0]
    ELSE add_track([net EXCEPT !.junctions[destination_id + 1].direction =
                       Some(FromAngle(get_transform_at_distance(made.shape,
                                          get_length(made.shape)).heading))],
                   source_id, destination_id, made.shape)

\* The case (None, Some) of connect_track, for made = [ok, shape], the result
\* of from_source_direction_dest before it is reversed.
connect_to_destination(net, source_id, destination_id, made) ==
    IF ~made.ok THEN [net |-> Panic(net), ret |-> 0]
    ELSE add_track([net EXCEPT !.junctions[source_id + 1].direction =
                       Some(FromAngle(get_transform_at_distance(reverse(made.shape),
                                                                0).heading))],
                   source_id, destination_id, reverse(made.shape))

\* The result r = [net, ret] of a case of connect_track, with the depth to which
\* connect_track has called itself in it.
with_depth(r, depth) == [net |-> r.net, ret |-> r.ret, depth |-> depth]

\* The larger of two depths.
deeper(a, b) == IF a > b THEN a ELSE b

RECURSIVE connect_track(_, _, _, _)
\* The end of the case (Some, Some): the line between the two new junctions.
bend_line(second, junction_1, junction_2, first_depth) ==
    IF second.net.panicked
    THEN with_depth(second, 1 + deeper(first_depth, second.depth))
    ELSE with_depth(create_line(assert_correctness(second.net), junction_1, junction_2),
                    1 + deeper(first_depth, second.depth))

\* The case (Some, Some) without its second recursive call.
bend_second_skipped(debug, first, destination_id, junction_1, junction_2) ==
    bend_line(first, junction_1, junction_2, first.depth)

\* The second recursive call of the case (Some, Some), and what follows it.
bend_second(debug, first, destination_id, junction_1, junction_2) ==
    bend_line(IF first.net.panicked THEN first
              ELSE connect_track(debug, assert_correctness(first.net), junction_2,
                                 destination_id),
              junction_1, junction_2, first.depth)

\* The case (Some, Some) from its second add_junction on.
bend_junctions(debug, source_id, destination_id, junction_1, junction_2) ==
    bend_second(debug, connect_track(debug, junction_2.net, source_id, junction_1.ret),
                destination_id, junction_1.ret, junction_2.ret)

\* The case (Some, Some) from its first add_junction on.
bend_from(debug, source_id, destination_id, found, junction_1) ==
    bend_junctions(debug, source_id, destination_id, junction_1,
                   add_junction(junction_1.net, Unwrap(found)[2]))

\* The case (Some, Some) of connect_track, for the Option found, the result of
\* .next(); unwrap panics on None.
connect_bend(debug, net, source_id, destination_id, found) ==
    IF ~IsSome(found) THEN [net |-> Panic(net), ret |-> 0, depth |-> 0]
    ELSE bend_from(debug, source_id, destination_id, found,
                   add_junction(net, Unwrap(found)[1]))

\* connect_track for the copies source and destiation of the two junctions.
connect_junctions(debug, net, source_id, destination_id, source, destiation) ==
    IF ~IsSome(source.direction) /\ ~IsSome(destiation.direction)
    THEN with_depth(create_line(net, source_id, destination_id), 0)
    ELSE IF IsSome(source.direction) /\ ~IsSome(destiation.direction)
    THEN with_depth(connect_from_source(net, source_id, destination_id,
                        from_source_direction_dest(debug, source.position,
                            Unwrap(source.direction), destiation.position)), 0)
    ELSE IF ~IsSome(source.direction) /\ IsSome(destiation.direction)
    THEN with_depth(connect_to_destination(net, source_id, destination_id,
                        from_source_direction_dest(debug, destiation.position,
                            VNeg(Unwrap(destiation.direction)), source.position)), 0)
    ELSE connect_bend(debug, net, source_id, destination_id,
             bend_search(source, destiation, Unwrap(source.direction),
                         Unwrap(destiation.direction), 1))

\* connect_track: [net, ret, depth].
connect_track(debug, net, source_id, destination_id) ==
    connect_junctions(debug, net, source_id, destination_id,
                      net.junctions[source_id + 1], net.junctions[destination_id + 1])

get_start_junction(net, station) ==
    net.tracks[net.stations[station + 1].track + 1].source

get_end_junction(net, station) ==
    net.tracks[net.stations[station + 1].track + 1].destiation

\* The push of add_station, after its add_track.
station_pushed(segment, position, length, angle) ==
    IF segment.net.panicked THEN [net |-> segment.net, ret |-> 0]
    ELSE [net |-> [segment.net EXCEPT !.stations =
                      Append(@, [position |-> position, length |-> length,
                                 angle |-> angle, track |-> segment.ret])],
          ret |-> Len(segment.net.stations)]

\* add_station from its second add_junction on.
station_between(start_junction, end_junction, position, length, angle) ==
    station_pushed(add_track(end_junction.net, start_junction.ret, end_junction.ret,
                             Line(position, FromAngle(angle), length)),
                   position, length, angle)

\* add_station from its first add_junction on.
station_from(start_junction, position, length, angle) ==
    station_between(start_junction,
                    add_junction(start_junction.net,
                                 VAdd(position, VScale(FromAngle(angle), length))),
                    position, length, angle)

add_station(net, position, length, angle) ==
    station_from(add_junction(net, position), position, length, angle)

add_train(net, track) ==
    [net |-> [net EXCEPT !.trains = Append(@, [track |-> track, distance |-> 0,
                                                id |-> Len(net.trains)]),
                         !.tracks[track + 1].trains = Append(@, Len(net.trains))],
     ret |-> Len(net.trains)]

\* The transforms at distance 0 of the tracks of the trains.
train_positions_at_start(net) ==
    [i \in 1..Len(net.trains) |->
        get_transform_at_distance(net.tracks[net.trains[i].track + 1].shape, 0)]

\* What train_positions yields: one (position, heading) per train, in order.
train_positions(net) ==
    [i \in 1..Len(net.trains) |->
        get_transform_at_distance(net.tracks[net.trains[i].track + 1].shape,
                                  net.trains[i].distance)]

\* What curves yields: one TrackInfo per track, in order.
curves(net) ==
    [i \in 1..Len(net.tracks) |->
        [source |-> net.junctions[net.tracks[i].source + 1].position,
         destination |-> net.junctions[net.tracks[i].destiation + 1].position,
         shape |-> net.tracks[i].shape]]

\* The speed of update, 8.0 units a second.
SPEED == 8 * SCALE

\* rand gen_range(0..len), for len > 0, from one raw random number.
gen_range(raw, len) == raw % len

\* The test of update with >= for >.
past_end_or_at(distance, length) == distance >= Abs(length)

\* The test of update: the train has run past the end of its track.
past_end(distance, length) == distance > Abs(length)

\* The choice among the entrances of the junction, not its exits.
choose_entrance(junction, raw) ==
    Minivec_index(junction.enterances, gen_range(raw, Minivec_len(junction.enterances)))

\* The exit a train takes at a junction with at least one exit.
choose_exit(junction, raw) ==
    Minivec_index(junction.exits, gen_range(raw, Minivec_len(junction.exits)))

\* The train enters the track and is taken from the front of the queue of the
\* track it leaves.
enter_track_leaving(net, i, next_track_id) ==
    [net EXCEPT !.tracks[net.trains[i].track + 1].trains = Tail(@),
                !.tracks[next_track_id + 1].trains = Append(@, net.trains[i].id),
                !.trains[i].track = net.tracks[next_track_id + 1].id]

\* The train (at index i from 1) enters the track: it joins the back of the
\* queue of the track and records the id of the track.
enter_track(net, i, next_track_id) ==
    LET next_track == net.tracks[next_track_id + 1]
    IN  [net EXCEPT !.tracks[next_track_id + 1].trains = Append(@, net.trains[i].id),
                    !.trains[i].track = next_track.id]

RECURSIVE update_loop(_, _, _, _)
\* The loop of update from train i (from 1) on; rng[i] is the raw random number
\* train i draws if it leaves its track.
update_loop(net, delta_time, rng, i) ==
    IF i > Len(net.trains) \/ net.panicked THEN net
    ELSE LET train == net.trains[i]
             track == net.tracks[train.track + 1]
             advanced == train.distance + Mul[delta_time, SPEED]
             wrapped == advanced % Abs(track.length)
             junction == net.junctions[track.destiation + 1]
         IN  IF ~past_end(advanced, track.length)
             THEN update_loop([net EXCEPT !.trains[i].distance = advanced],
                              delta_time, rng, i + 1)
             ELSE IF Minivec_len(junction.exits) = 0
             THEN Panic([net EXCEPT !.trains[i].distance = wrapped])
             ELSE update_loop(enter_track([net EXCEPT !.trains[i].distance = wrapped],
                                          i, choose_exit(junction, rng[i])),
                              delta_time, rng, i + 1)

update(net, delta_time, rng) == update_loop(net, delta_time, rng, 1)

(***************************************************************************)
(* generate_network                                                        *)
(***************************************************************************)
\* The ten corner points of a ring, before scaling.
RingPoints ==
    LET width == 84 * SCALE
        height == 56 * SCALE
        border_radius == 12 * SCALE
        half == SCALE \div 2
    IN  << Vec2(Mul[-width, half] + border_radius, Mul[-height, half]),
           Vec2(Mul[-width, half], Mul[-height, half] + border_radius),
           Vec2(Mul[-width, half], Mul[height, half] - border_radius),
           Vec2(Mul[-width, half] + border_radius, Mul[height, half]),
           Vec2(0, Mul[height, half]),
           Vec2(Mul[width, half] - border_radius, Mul[height, half]),
           Vec2(Mul[width, half], Mul[height, half] - border_radius),
           Vec2(Mul[width, half], Mul[-height, half] + border_radius),
           Vec2(Mul[width, half] - border_radius, Mul[-height, half]),
           Vec2(0, Mul[-height, half]) >>

\* The (scale, offset) pairs of the two rings; 0.8 is 4/5.
RingScales == << <<SCALE, 1>>, <<(SCALE \div 5) * 4, -1>> >>

\* The order without its last entry, the one that closes the ring.
RingOrderOpen == <<1, 2, 3, 4, 5, 6, 7, 8, 9>>

\* The order in which the junctions of a ring are connected.
RingOrder == <<1, 2, 3, 4, 5, 6, 7, 8, 9, 0>>

RECURSIVE ring_junctions(_, _, _, _)
\* The array `junctions` of one ring: [net, ret], ret the ids of the junctions.
ring_junctions(net, scale, k, ids) ==
    IF k > Len(RingPoints) THEN [net |-> net, ret |-> ids]
    ELSE LET added == add_junction(net, VScale(RingPoints[k], scale))
         IN  ring_junctions(added.net, scale, k + 1, Append(ids, added.ret))

RECURSIVE ring_tracks(_, _, _, _, _, _)
\* The end of one iteration of the map over RingOrder, and the iterations after.
ring_tracks_next(debug, track, ids, offset, k, made) ==
    ring_tracks(debug, track.net, ids, offset, k + 1, Append(made, track.ret))

\* One connect_track of the map: from junctions[i] to junctions[(i + 11) % 10]
\* when offset > 0, and the other way round otherwise.
ring_connect(debug, net, offset, this, next) ==
    connect_track(debug, net, IF offset > 0 THEN this ELSE next,
                  IF offset > 0 THEN next ELSE this)

\* The array `tracks` of one ring: [net, ret], ret the ids connect_track gave.
ring_tracks(debug, net, ids, offset, k, made) ==
    IF k > Len(RingOrder) \/ net.panicked THEN [net |-> net, ret |-> made]
    ELSE ring_tracks_next(debug,
             ring_connect(debug, net, offset, ids[RingOrder[k] + 1],
                          ids[((RingOrder[k] + Len(ids) + 1) % Len(ids)) + 1]),
             ids, offset, k, made)

\* The two add_train calls of one ring, on tracks[0] and tracks[1].
ring_trains(net, track_ids) ==
    add_train(add_train(net, track_ids[1]).net, track_ids[2]).net

RECURSIVE rings(_, _, _)
\* The end of iteration k of the for loop, and the iterations after it.
rings_next(debug, connected, k) ==
    IF connected.net.panicked THEN connected.net
    ELSE rings(debug, ring_trains(assert_correctness(connected.net), connected.ret), k + 1)

\* Iteration k of the for loop from its array `junctions` = made on.
ring_of(debug, made, offset, k) ==
    rings_next(debug, ring_tracks(debug, made.net, made.ret, offset, 1, <<>>), k)

\* The for loop of generate_network from its k-th pair on.
rings(debug, net, k) ==
    IF k > Len(RingScales) \/ net.panicked THEN net
    ELSE ring_of(debug, ring_junctions(net, RingScales[k][1], 1, <<>>),
                 RingScales[k][2], k)

\* The second link between the rings.
link_second(debug, first, length) ==
    IF first.net.panicked THEN first.net
    ELSE connect_track(debug, first.net, length - 24, 9).net

\* The two links between the rings, made after the for loop.
links(debug, network, length) ==
    IF network.panicked THEN network
    ELSE link_second(debug, connect_track(debug, network, 1, length - 16), length)

\* The network generate_network returns, when it does not panic.
generate_with(debug, network) == links(debug, network, Len(network.junctions))

generate_network(debug) == generate_with(debug, rings(debug, EmptyNetwork, 1))

(***************************************************************************)
(* The program as a state machine.  main builds a network and then loops,  *)
(* calling update and train_positions once a frame.  Under Spec the        *)
(* network is built by any calls of the construction operations on a few   *)
(* points; under SpecGen it is built by generate_network, as main does;    *)
(* under SpecAddTrack add_track is applied to shapes of many lengths, and   *)
(* add_station is called.                                                  *)
(***************************************************************************)
\* The most tracks a network may have and still be built on.
MaxTracks == 3
\* The most trains.
MaxTrains == 1
\* The most stations.
MaxStations == 1
\* The most calls of update under Spec.
MaxUpdates == 2
\* The most frames of the loop of main under SpecGen.
MaxFrames == 8
\* The longest shape add_track is given under SpecAddTrack, in half units.
MaxHalfUnits == 40

\* The positions junctions are added at.
Points == {Vec2(0, 0), Vec2(10 * SCALE, 0)}

\* The frame times update is called with: 1.25 s and 1 s.
DeltaTimes == {SCALE + SCALE \div 4, SCALE}

\* The raw random numbers a train may draw.
RawRandom == 0 .. (MINIVEC_SIZE - 1)

\* The Network value of the state, and the state of a Network value.
Net ==
    [junctions |-> junctions, tracks |-> tracks, trains |-> trains,
     stations |-> stations, panicked |-> panicked]

Commit(net) ==
    /\ junctions' = net.junctions
    /\ tracks' = net.tracks
    /\ trains' = net.trains
    /\ stations' = net.stations
    /\ panicked' = net.panicked

Holds(net) ==
    /\ junctions = net.junctions
    /\ tracks = net.tracks
    /\ trains = net.trains
    /\ stations = net.stations
    /\ panicked = net.panicked

\* The record of a call; depth is how deep the call has recursed, 0 for a call
\* that has not called itself.
Call(op, args, ret) == [op |-> op, args |-> args, ret |-> ret, depth |-> 0]

JunctionIds == 0 .. (Len(junctions) - 1)
TrackIds == 0 .. (Len(tracks) - 1)

\* The straight line from the position from to the position to.
line_from_to(from, to) == Line(from, Normalize(VSub(to, from)), VLength(VSub(to, from)))

\* The straight line from junction a to junction b.
line_between(net, a, b) ==
    line_from_to(net.junctions[a + 1].position, net.junctions[b + 1].position)

\* The arc from junction a, which it leaves in the direction (0, 1), to junction b.
arc_between(net, a, b) ==
    from_source_direction_dest(FALSE, net.junctions[a + 1].position, Vec2(0, SCALE),
                               net.junctions[b + 1].position).shape

Building == pc = "build" /\ ~panicked
Looping == pc = "loop" /\ ~panicked

Init ==
    /\ debug_assertions \in BOOLEAN
    /\ Holds(EmptyNetwork)
    /\ pc = "build"
    /\ last = Call("new", <<>>, 0)
    /\ positions = <<>>
    /\ updates = 0

AddJunction(position) ==
    /\ Building
    /\ \A j \in 1 .. Len(junctions) : junctions[j].position # position
    /\ \E r \in {add_junction(Net, position)} :
          /\ Commit(r.net)
          /\ last' = Call("add_junction", <<position>>, r.ret)
    /\ UNCHANGED <<debug_assertions, pc, positions, updates>>

ConnectTrack(source_id, destination_id) ==
    /\ Building
    /\ Len(tracks) <= MaxTracks
    /\ source_id # destination_id
    /\ \E r \in {connect_track(debug_assertions, Net, source_id, destination_id)} :
          /\ Commit(r.net)
          /\ last' = [Call("connect_track", <<source_id, destination_id>>, r.ret)
                          EXCEPT !.depth = r.depth]
    /\ UNCHANGED <<debug_assertions, pc, positions, updates>>

\* add_track of the shape from junction source_id to junction destination_id.
AddTrackOf(source_id, destination_id, shape) ==
    /\ Building
    /\ Len(tracks) <= MaxTracks
    /\ source_id # destination_id
    /\ \E r \in {add_track(Net, source_id, destination_id, shape)} :
          /\ Commit(r.net)
          /\ last' = Call("add_track", <<source_id, destination_id, shape>>, r.ret)
    /\ UNCHANGED <<debug_assertions, pc, positions, updates>>

AddTrack(source_id, destination_id) ==
    AddTrackOf(source_id, destination_id, line_between(Net, source_id, destination_id))

AddTrackArc(source_id, destination_id) ==
    AddTrackOf(source_id, destination_id, arc_between(Net, source_id, destination_id))

AddTrackSegment(source_id, destination_id) ==
    /\ Building
    /\ Len(tracks) <= MaxTracks
    /\ source_id # destination_id
    /\ \E r \in {add_track_segment(Net, source_id, destination_id,
                                   line_between(Net, source_id, destination_id))} :
          /\ Commit(r.net)
          /\ last' = Call("add_track_segment", <<source_id, destination_id>>, r.ret)
    /\ UNCHANGED <<debug_assertions, pc, positions, updates>>

\* The stations added: at (0, 5), 2 or 7 units long, along the x or the y axis.
StationInputs ==
    {<<Vec2(0, 5 * SCALE), length, angle>> :
        length \in {2 * SCALE, 7 * SCALE}, angle \in {0, FRAC_PI_2}}

AddStation(position, length, angle) ==
    /\ Building
    /\ Len(tracks) <= MaxTracks
    /\ Len(stations) < MaxStations
    /\ \E r \in {add_station(Net, position, length, angle)} :
          /\ Commit(r.net)
          /\ last' = Call("add_station", <<position, length, angle>>, r.ret)
    /\ UNCHANGED <<debug_assertions, pc, positions, updates>>

AddTrain(track) ==
    /\ Building
    /\ Len(trains) < MaxTrains
    /\ \E r \in {add_train(Net, track)} :
          /\ Commit(r.net)
          /\ last' = Call("add_train", <<track>>, r.ret)
    /\ UNCHANGED <<debug_assertions, pc, positions, updates>>

\* main leaves the construction and enters its frame loop.
EnterLoop ==
    /\ Building
    /\ pc' = "loop"
    /\ last' = Call("loop", <<>>, 0)
    /\ UNCHANGED <<junctions, tracks, trains, stations, panicked, debug_assertions,
                   positions, updates>>

\* update; what train_positions yielded before is no longer held.
Update(delta_time, rng) ==
    /\ Looping
    /\ updates < MaxUpdates
    /\ \E net \in {update(Net, delta_time, rng)} : Commit(net)
    /\ last' = Call("update", <<delta_time>>, 0)
    /\ positions' = <<>>
    /\ updates' = updates + 1
    /\ UNCHANGED <<debug_assertions, pc>>

TrainPositions ==
    /\ Looping
    /\ positions' = train_positions(Net)
    /\ last' = Call("train_positions", <<>>, 0)
    /\ UNCHANGED <<junctions, tracks, trains, stations, panicked, debug_assertions,
                   pc, updates>>

Next ==
    \/ \E position \in Points : AddJunction(position)
    \/ \E source_id, destination_id \in JunctionIds :
          \/ ConnectTrack(source_id, destination_id)
          \/ AddTrack(source_id, destination_id)
          \/ AddTrackSegment(source_id, destination_id)
    \/ \E track \in TrackIds : AddTrain(track)
    \/ EnterLoop
    \/ \E delta_time \in DeltaTimes :
          \E rng \in [1 .. Len(trains) -> RawRandom] : Update(delta_time, rng)
    \/ TrainPositions

Spec == Init /\ [][Next]_vars

(***************************************************************************)
(* SpecAddTrack: add_track between two junctions, for shapes of many       *)
(* lengths: the line between them and the half circle between them.        *)
(***************************************************************************)
\* The distances between the two junctions: every half unit up to the bound.
Distances == {k * (SCALE \div 2) : k \in 1 .. MaxHalfUnits}

\* The network with a junction at (0, 0) and one at (distance, 0).
two_junctions(distance) ==
    add_junction(add_junction(EmptyNetwork, Vec2(0, 0)).net, Vec2(distance, 0)).net

InitAddTrack ==
    /\ debug_assertions \in BOOLEAN
    /\ \E distance \in Distances : Holds(two_junctions(distance))
    /\ pc = "build"
    /\ last = Call("new", <<>>, 0)
    /\ positions = <<>>
    /\ updates = 0

NextAddTrack ==
    \/ AddTrack(0, 1)
    \/ AddTrackArc(0, 1)
    \/ \E input \in StationInputs : AddStation(input[1], input[2], input[3])

SpecAddTrack == InitAddTrack /\ [][NextAddTrack]_vars

(***************************************************************************)
(* SpecGen: main.  It calls generate_network and then, once a frame,       *)
(* update with the frame time and train_positions.                         *)
(***************************************************************************)
GenerateNetwork ==
    /\ Building
    /\ Len(junctions) = 0
    /\ \E net \in {generate_network(debug_assertions)} : Commit(net)
    /\ pc' = "loop"
    /\ last' = Call("generate_network", <<>>, 0)
    /\ UNCHANGED <<debug_assertions, positions, updates>>

\* One iteration of the loop of main: update, and then train_positions.
Frame(delta_time, rng) ==
    /\ Looping
    /\ updates < MaxFrames
    /\ \E r \in {update(Net, delta_time, rng)} :
          /\ Commit(r)
          /\ positions' = IF r.panicked THEN <<>> ELSE train_positions(r)
    /\ last' = Call("update", <<delta_time>>, 0)
    /\ updates' = updates + 1
    /\ UNCHANGED <<debug_assertions, pc>>

NextGen ==
    \/ GenerateNetwork
    \/ \E delta_time \in DeltaTimes :
          \E rng \in [1 .. Len(trains) -> RawRandom] : Frame(delta_time, rng)

SpecGen == Init /\ [][NextGen]_vars

(***************************************************************************)
(* Properties.  A step of update is one that counts a call of update.      *)
(***************************************************************************)
UpdateStep == updates' = updates + 1 /\ last'.op = "update"

\* The track train i (from 1) occupies, and the junction that track leads to.
TrackOf(i) == tracks[trains[i].track + 1]
DestinationOf(i) == junctions[TrackOf(i).destiation + 1]

\* The distance of train i after it has advanced by delta_time * SPEED.
Advanced(i, delta_time) == trains[i].distance + Mul[delta_time, SPEED]

\* Train i stands at distance 0 on a straight track of length 10, and update
\* is called with 1.25.
BoundaryStep(i) ==
    /\ UpdateStep
    /\ last'.args = <<SCALE + SCALE \div 4>>
    /\ trains[i].distance = 0
    /\ TrackOf(i).shape.kind = "Line"
    /\ TrackOf(i).length = 10 * SCALE

\* C1 (as the code has it): a train at distance 0 on a straight track of
\* length 10 has, after update(1.25), the distance 10.0 exactly and is still on
\* the same track, whose queue is unchanged: update moves a train on only when
\* its distance is greater than the length.
C1_BoundaryStays ==
    [][\A i \in 1 .. Len(trains) :
          BoundaryStep(i) =>
              /\ ~panicked'
              /\ trains'[i].distance = 10 * SCALE
              /\ trains'[i].track = trains[i].track
              /\ tracks'[trains[i].track + 1].trains = TrackOf(i).trains]_vars

\* C1 as stated: after update(1.25) the train has distance 0.0 and occupies one
\* of the exits of the destination junction of its old track.
C1_BoundaryWraps ==
    [][\A i \in 1 .. Len(trains) :
          BoundaryStep(i) =>
              /\ trains'[i].distance = 0
              /\ \E k \in 1 .. Minivec_len(DestinationOf(i).exits) :
                    trains'[i].track = Minivec_index(DestinationOf(i).exits, k - 1)]_vars

\* update(1.25) has returned, the train is at distance 10.0 of a straight track
\* of length 10 whose destination junction has an exit it could have taken.
C1_Witness ==
    /\ last.op = "update"
    /\ last.args = <<SCALE + SCALE \div 4>>
    /\ updates = 1
    /\ ~panicked
    /\ \E i \in 1 .. Len(trains) :
          /\ trains[i].distance = 10 * SCALE
          /\ TrackOf(i).shape.kind = "Line"
          /\ TrackOf(i).length = 10 * SCALE
          /\ Minivec_len(DestinationOf(i).exits) > 0

\* C2 as stated: once update has returned, every train has a distance from 0 to
\* the length of the track it occupies (to within 0.01, so that no rounding of
\* the arithmetic counts as a violation).
C2_DistanceWithinLength ==
    (last.op = "update" /\ ~panicked) =>
        \A i \in 1 .. Len(trains) :
            trains[i].distance >= 0 /\ trains[i].distance <= TrackOf(i).length + Tolerance

\* What update does to train i when it is called with delta_time and returns.
MovesAsUpdate(i, delta_time) ==
    IF Advanced(i, delta_time) > Abs(TrackOf(i).length)
    THEN /\ trains'[i].distance = Advanced(i, delta_time) % Abs(TrackOf(i).length)
         /\ \E k \in 1 .. Minivec_len(DestinationOf(i).exits) :
               trains'[i].track = Minivec_index(DestinationOf(i).exits, k - 1)
         /\ tracks'[trains'[i].track + 1].source = TrackOf(i).destiation
    ELSE /\ trains'[i].distance = Advanced(i, delta_time)
         /\ trains'[i].track = trains[i].track

\* C3: in every update that returns, a train whose advanced distance exceeds the
\* length of its track T gets that distance modulo the length and moves to a
\* track that is an exit of the destination junction of T, and so starts where
\* T ends; any other train stays on its track with the advanced distance.
C3_MovesToExit ==
    [][(UpdateStep /\ ~panicked') =>
          \A i \in 1 .. Len(trains) : MovesAsUpdate(i, last'.args[1])]_vars

\* update has returned and has moved a train to another track: the id of the
\* train is in the queues of two tracks, and it occupies the later one.
C3_Witness ==
    /\ last.op = "update"
    /\ ~panicked
    /\ \E i \in 1 .. Len(trains) :
          \E t \in 1 .. Len(tracks) :
              /\ t # trains[i].track + 1
              /\ \E k \in 1 .. Len(tracks[t].trains) : tracks[t].trains[k] = trains[i].id
              /\ tracks[t].destiation = TrackOf(i).source

\* The step is a call of add_track_segment that finds the exits of its source
\* junction or the entrances of its destination junction full.
SegmentOnFull ==
    /\ last'.op = "add_track_segment"
    /\ \/ Minivec_len(junctions[last'.args[1] + 1].exits) >= 2
       \/ Minivec_len(junctions[last'.args[2] + 1].enterances) >= 2

\* The step is a call of add_track_segment that returns: the track is added, and
\* its id is in the exits of its source and in the entrances of its destination.
SegmentAdded ==
    /\ Len(tracks') = Len(tracks) + 1
    /\ tracks'[Len(tracks')].id = last'.ret
    /\ \E k \in 1 .. Minivec_len(junctions'[last'.args[1] + 1].exits) :
          Minivec_index(junctions'[last'.args[1] + 1].exits, k - 1) = last'.ret
    /\ \E k \in 1 .. Minivec_len(junctions'[last'.args[2] + 1].enterances) :
          Minivec_index(junctions'[last'.args[2] + 1].enterances, k - 1) = last'.ret

\* C4: every junction holds at most 2 entrances and at most 2 exits in every
\* state; add_track_segment on a junction that is full panics and adds no track;
\* and an add_track_segment that returns has added the track to both junctions.
C4_CapacityTwo ==
    /\ [](\A j \in 1 .. Len(junctions) :
             /\ Minivec_len(junctions[j].exits) <= 2
             /\ Minivec_len(junctions[j].enterances) <= 2)
    /\ [][SegmentOnFull => (panicked' /\ tracks' = tracks)]_vars
    /\ [][(last'.op = "add_track_segment" /\ ~panicked') => SegmentAdded]_vars

\* add_track_segment has panicked on a junction that already had 2 exits, and
\* the 2 tracks are all the network has.
C4_Witness ==
    /\ panicked
    /\ last.op = "add_track_segment"
    /\ Minivec_len(junctions[last.args[1] + 1].exits) = 2
    /\ Len(tracks) = 2

\* The direction of the junction an Arc leads to is the heading in which the Arc
\* arrives (to within 0.01): the Arc wrote it, or was built to fit it, and no
\* create_line called from the same connect_track later has replaced it by the
\* direction of its Line.
ArcDirectionKept ==
    \A a \in 1 .. Len(tracks) :
        tracks[a].shape.kind = "Arc" =>
            /\ IsSome(junctions[tracks[a].destiation + 1].direction)
            /\ VDistance(Unwrap(junctions[tracks[a].destiation + 1].direction),
                         FromAngle(get_transform_at_distance(tracks[a].shape,
                                       tracks[a].length).heading)) < Tolerance

\* C5: once the direction of a junction is set, no step of any operation sets
\* it to another value or unsets it; and inside connect_track, the direction an
\* Arc has set is not replaced when create_line later calls get_or_insert.
C5_DirectionFirstWriteWins ==
    /\ [][\A j \in 1 .. Len(junctions) :
             IsSome(junctions[j].direction) =>
                 /\ j <= Len(junctions')
                 /\ junctions'[j].direction = junctions[j].direction]_vars
    /\ []ArcDirectionKept

\* connect_track has returned from its case of two directions: an Arc ends at a
\* junction where a Line starts, so create_line has called get_or_insert on a
\* direction that the Arc had set before.
C5_Witness ==
    /\ last.op = "connect_track"
    /\ ~panicked
    /\ \E a, l \in 1 .. Len(tracks) :
          /\ tracks[a].shape.kind = "Arc"
          /\ tracks[l].shape.kind = "Line"
          /\ tracks[a].destiation = tracks[l].source
          /\ IsSome(junctions[tracks[l].source + 1].direction)

\* The step is a call of add_track that returns; the length of its shape.
AddTrackReturns == last'.op = "add_track" /\ ~panicked'
AddTrackLength == get_length(last'.args[3])

\* max(1, floor(L / 3)) and max(1, ceil(L / 3)), for a length L.
FloorSegments(L) == IF L \div (3 * SCALE) > 1 THEN L \div (3 * SCALE) ELSE 1
CeilSegments(L) == IF (L + 3 * SCALE - 1) \div (3 * SCALE) > 1
                   THEN (L + 3 * SCALE - 1) \div (3 * SCALE) ELSE 1

\* The step has added exactly n tracks, each of length L / n (to within 0.001),
\* and exactly n - 1 junctions.
AddedSegments(L, n) ==
    /\ Len(tracks') = Len(tracks) + n
    /\ Len(junctions') = Len(junctions) + n - 1
    /\ \A k \in (Len(tracks) + 1) .. Len(tracks') :
          Abs(tracks'[k].length - Div[L, n * SCALE]) <= Epsilon

\* C6 (as the code has it): add_track of a shape of length L creates exactly
\* n = max(1, floor(L / 3)) tracks, each of length L / n, and n - 1 junctions.
C6_FloorSegments ==
    [][AddTrackReturns => AddedSegments(AddTrackLength, FloorSegments(AddTrackLength))]_vars

\* C6 as stated: n = max(1, ceil(L / 3)), and so no track made is longer than 3.
C6_CeilSegments ==
    [][AddTrackReturns =>
          /\ AddedSegments(AddTrackLength, CeilSegments(AddTrackLength))
          /\ \A k \in (Len(tracks) + 1) .. Len(tracks') :
                tracks'[k].length <= 3 * SCALE + Epsilon]_vars

\* add_track of a Line of length 7 has returned, and has made 2 tracks, each
\* longer than 3.
C6_Witness ==
    /\ last.op = "add_track"
    /\ ~panicked
    /\ last.args[3].kind = "Line"
    /\ get_length(last.args[3]) = 7 * SCALE
    /\ Len(tracks) = 2
    /\ \A k \in 1 .. 2 : tracks[k].length > 3 * SCALE

\* The step is connect_track from a junction at (0, 0) to one at (10, 0), both
\* without a direction, the first with room for an exit and the second with room
\* for an entrance.
ConnectsPlainLine ==
    /\ last'.op = "connect_track"
    /\ Minivec_len(junctions[last'.args[1] + 1].exits) < 2
    /\ Minivec_len(junctions[last'.args[2] + 1].enterances) < 2
    /\ junctions[last'.args[1] + 1].position = Vec2(0, 0)
    /\ junctions[last'.args[2] + 1].position = Vec2(10 * SCALE, 0)
    /\ ~IsSome(junctions[last'.args[1] + 1].direction)
    /\ ~IsSome(junctions[last'.args[2] + 1].direction)

\* Track k of the next state is a Line with direction (1, 0).
LineAlongX(k) ==
    /\ tracks'[k].shape.kind = "Line"
    /\ tracks'[k].shape.direction = Vec2(SCALE, 0)

\* C7 (as the code has it): connect_track between junctions at (0, 0) and
\* (10, 0) without directions makes 3 tracks, each a Line with direction (1, 0)
\* and of length 10/3, that lead one into the next from the source junction to
\* the destination junction over 2 new junctions; it returns the id of the first
\* of them, which starts at the source junction; both junctions get the
\* direction (1, 0).
C7_ThreeSegments ==
    [][ConnectsPlainLine =>
          /\ ~panicked'
          /\ Len(tracks') = Len(tracks) + 3
          /\ Len(junctions') = Len(junctions) + 2
          /\ last'.ret = Len(tracks)
          /\ \A k \in (Len(tracks) + 1) .. (Len(tracks) + 3) :
                /\ LineAlongX(k)
                /\ Abs(3 * tracks'[k].length - 10 * SCALE) <= Epsilon
          /\ tracks'[Len(tracks) + 1].source = last'.args[1]
          /\ tracks'[Len(tracks) + 1].destiation = Len(junctions)
          /\ tracks'[Len(tracks) + 2].source = Len(junctions)
          /\ tracks'[Len(tracks) + 2].destiation = Len(junctions) + 1
          /\ tracks'[Len(tracks) + 3].source = Len(junctions) + 1
          /\ tracks'[Len(tracks) + 3].destiation = last'.args[2]
          /\ junctions'[last'.args[1] + 1].direction = Some(Vec2(SCALE, 0))
          /\ junctions'[last'.args[2] + 1].direction = Some(Vec2(SCALE, 0))]_vars

\* C7 as stated: the track connect_track returns is a Line of length 10 with
\* direction (1, 0) from the source junction to the destination junction.
C7_OneLine ==
    [][ConnectsPlainLine =>
          /\ ~panicked'
          /\ LineAlongX(last'.ret + 1)
          /\ tracks'[last'.ret + 1].length = 10 * SCALE
          /\ tracks'[last'.ret + 1].source = last'.args[1]
          /\ tracks'[last'.ret + 1].destiation = last'.args[2]]_vars

\* connect_track from the junction at (0, 0) to the one at (10, 0) has returned
\* on a network that had no track.
C7_Witness ==
    /\ last.op = "connect_track"
    /\ ~panicked
    /\ Len(tracks) = 3
    /\ junctions[last.args[1] + 1].position = Vec2(0, 0)
    /\ junctions[last.args[2] + 1].position = Vec2(10 * SCALE, 0)
    /\ tracks[last.ret + 1].shape.direction = Vec2(SCALE, 0)

\* The queue q with the ids of the trains that update moves to track t (from 1)
\* when it is called with delta_time, in the order of the trains.
WithArrivals(q, t, delta_time) ==
    q \o SelectSeq([i \in 1 .. Len(trains) |-> trains[i].id],
                   LAMBDA id : /\ Advanced(id + 1, delta_time) > Abs(TrackOf(id + 1).length)
                               /\ trains'[id + 1].track = t - 1)

\* The sequence p is a prefix of the sequence q.
IsPrefix(p, q) == Len(p) <= Len(q) /\ \A k \in 1 .. Len(p) : p[k] = q[k]

ExitsOf(j) ==
    {Minivec_index(junctions[j + 1].exits, k - 1) :
        k \in 1 .. Minivec_len(junctions[j + 1].exits)}

\* The tracks of R and the tracks a train can take next from them.
WithNext(R) == R \cup UNION {ExitsOf(tracks[t + 1].destiation) : t \in R}

RECURSIVE ReachableTracks(_)
\* The ids of the tracks a train can come to from the tracks of the set R.
ReachableTracks(R) == IF WithNext(R) = R THEN R ELSE ReachableTracks(WithNext(R))

\* C9: generate_network does not panic, and in the network it returns every
\* junction that a train can reach by following tracks from the track it was
\* put on has at least one exit; in every state reached by calls of update from
\* there the same holds and update has not panicked.
C9_ReachableHaveExit ==
    /\ ~panicked
    /\ pc = "loop" =>
          \A t \in ReachableTracks({trains[i].track : i \in 1 .. Len(trains)}) :
              ExitsOf(tracks[t + 1].destiation) # {}

\* The network of generate_network after 3 frames in which every train has
\* moved to another track at least once.
C9_Witness ==
    /\ pc = "loop"
    /\ last.op = "update"
    /\ updates >= 3
    /\ Len(trains) = 4
    /\ \A i \in 1 .. Len(trains) :
          \E t \in 1 .. Len(tracks) :
              /\ t # trains[i].track + 1
              /\ \E k \in 1 .. Len(tracks[t].trains) : tracks[t].trains[k] = trains[i].id

EndsMeet(t) ==
    /\ VDistance(get_transform_at_distance(tracks[t].shape, 0).position,
                 junctions[tracks[t].source + 1].position) < Tolerance
    /\ VDistance(get_transform_at_distance(tracks[t].shape, tracks[t].length).position,
                 junctions[tracks[t].destiation + 1].position) < Tolerance

\* C11 as stated: the shape of every track of the network starts at the source
\* junction of the track and ends at its destination junction.
C11_EndsMeet == \A t \in 1 .. Len(tracks) : EndsMeet(t)

\* Five distances from 0 to the length L.
SampleDistances(L) == {(k * L) \div 4 : k \in 0 .. 4}

\* The shapes s and r have, at the distance d, the same position (to within
\* 0.01) and the same heading.
SameTransform(s, r, d) ==
    /\ VDistance(get_transform_at_distance(s, d).position,
                 get_transform_at_distance(r, d).position) < Tolerance
    /\ get_transform_at_distance(s, d).heading = get_transform_at_distance(r, d).heading

\* reverse, applied twice to the shape s, gives the positions and headings of s;
\* applied once, it gives a shape of the same length that is at the distance d
\* where s is at the distance length - d.
ReverseInvolution(s) ==
    /\ Abs(get_length(reverse(s)) - get_length(s)) <= Epsilon
    /\ \A d \in SampleDistances(get_length(s)) :
          /\ SameTransform(reverse(reverse(s)), s, d)
          /\ VDistance(get_transform_at_distance(reverse(s), d).position,
                       get_transform_at_distance(s, get_length(s) - d).position)
                 < Tolerance

\* C12: reverse is an involution on the shape of every track, Line or Arc, and
\* the reverse of a shape runs through the same points the other way.
C12_ReverseInvolution == \A t \in 1 .. Len(tracks) : ReverseInvolution(tracks[t].shape)

\* The network holds a Line and an Arc, each longer than 3, and the reverse of
\* the Arc starts elsewhere than the Arc.
C12_Witness ==
    /\ \E t \in 1 .. Len(tracks) :
          tracks[t].shape.kind = "Line" /\ tracks[t].length > 3 * SCALE
    /\ \E t \in 1 .. Len(tracks) :
          /\ tracks[t].shape.kind = "Arc"
          /\ tracks[t].length > 3 * SCALE
          /\ get_transform_at_distance(reverse(tracks[t].shape), 0).position
                 # get_transform_at_distance(tracks[t].shape, 0).position

RECURSIVE JunctionsFrom(_, _, _)
\* The ids of the junctions reached from the junctions of the set J along the
\* tracks of the sequence trks from the index first on.
JunctionsFrom(trks, first, J) ==
    IF \A k \in first .. Len(trks) : trks[k].source \in J => trks[k].destiation \in J
    THEN J
    ELSE JunctionsFrom(trks, first,
             J \cup {trks[k].destiation : k \in {i \in first .. Len(trks) : trks[i].source \in J}})

\* The step is a connect_track between two junctions that both have a direction,
\* and it returns.
BendReturns ==
    /\ last'.op = "connect_track"
    /\ ~panicked'
    /\ IsSome(junctions[last'.args[1] + 1].direction)
    /\ IsSome(junctions[last'.args[2] + 1].direction)

\* The tracks the step has added lead from the junction a to the junction b.
NewPath(a, b) == b \in JunctionsFrom(tracks', Len(tracks) + 1, {a})

\* C13: connect_track calls itself at most one level deep; in its case of two
\* directions it calls itself exactly one level deep, the two junctions it adds
\* are the next two ids, and the tracks it adds lead from the source to the
\* first of them, from the first to the second, and from the second to the
\* destination.
C13_OneLevel ==
    /\ [][last'.op = "connect_track" => last'.depth <= 1]_vars
    /\ [][BendReturns =>
             /\ last'.depth = 1
             /\ Len(junctions') >= Len(junctions) + 2
             /\ NewPath(last'.args[1], Len(junctions))
             /\ NewPath(Len(junctions), Len(junctions) + 1)
             /\ NewPath(Len(junctions) + 1, last'.args[2])]_vars

\* connect_track has returned from its case of two directions.
C13_Witness ==
    /\ last.op = "connect_track"
    /\ last.depth = 1
    /\ ~panicked
    /\ Len(tracks) > 10


\* How many times the id t occurs among the items of the Minivec mv.
Occurrences(mv, t) == Cardinality({k \in 1 .. Minivec_len(mv) : mv.inner[k] = t})

\* Junction and track ids are their indices, the ends of every track are
\* junctions, and the exits and the enterances of every junction hold exactly
\* the ids of the tracks that start and that end there, once each.
Adjacent ==
    /\ \A j \in 1 .. Len(junctions) : junctions[j].id = j - 1
    /\ \A t \in 1 .. Len(tracks) :
          /\ tracks[t].id = t - 1
          /\ tracks[t].source \in 0 .. Len(junctions) - 1
          /\ tracks[t].destiation \in 0 .. Len(junctions) - 1
    /\ \A j \in 1 .. Len(junctions) :
          /\ \A k \in 1 .. Minivec_len(junctions[j].exits) :
                junctions[j].exits.inner[k] \in 0 .. Len(tracks) - 1
          /\ \A k \in 1 .. Minivec_len(junctions[j].enterances) :
                junctions[j].enterances.inner[k] \in 0 .. Len(tracks) - 1
          /\ \A t \in 1 .. Len(tracks) :
                /\ Occurrences(junctions[j].exits, t - 1)
                       = (IF tracks[t].source = j - 1 THEN 1 ELSE 0)
                /\ Occurrences(junctions[j].enterances, t - 1)
                       = (IF tracks[t].destiation = j - 1 THEN 1 ELSE 0)

\* The junctions, and the id and the two ends of every track, are as before the
\* step.
AdjacencyKept ==
    /\ junctions' = junctions
    /\ Len(tracks') = Len(tracks)
    /\ \A t \in 1 .. Len(tracks) :
          /\ tracks'[t].id = tracks[t].id
          /\ tracks'[t].source = tracks[t].source
          /\ tracks'[t].destiation = tracks[t].destiation

\* C14: in every state of a program that has not panicked the adjacency of
\* junctions and tracks is consistent, and update changes none of it.
C14_Adjacency ==
    /\ [](~panicked => Adjacent)
    /\ [][UpdateStep => AdjacencyKept]_vars

\* A train has been moved by update in a network where a junction has two exits
\* and another two enterances.
C14_Witness ==
    /\ ~panicked
    /\ last.op = "update"
    /\ \E j \in 1 .. Len(junctions) : Minivec_len(junctions[j].exits) = 2
    /\ \E j \in 1 .. Len(junctions) : Minivec_len(junctions[j].enterances) = 2
    /\ \E i \in 1 .. Len(trains) : trains[i].distance > 0


\* C15 as stated: the track that connect_track returns starts at the junction
\* source of the call.
C15_ReturnsFromSource ==
    [][(last'.op = "connect_track" /\ ~panicked')
          => /\ last'.ret \in 0 .. Len(tracks') - 1
             /\ tracks'[last'.ret + 1].source = last'.args[1]]_vars

\* The same for the three cases of connect_track in which the source or the
\* destination has no direction.
C15_SingleReturnsFromSource ==
    [][(/\ last'.op = "connect_track"
        /\ ~panicked'
        /\ ~(/\ IsSome(junctions[last'.args[1] + 1].direction)
             /\ IsSome(junctions[last'.args[2] + 1].direction)))
          => /\ last'.ret \in 0 .. Len(tracks') - 1
             /\ tracks'[last'.ret + 1].source = last'.args[1]]_vars

\* In the case of two directions the track returned starts at the first of the
\* two junctions the call has added.
C15_BendReturnsFromMidpoint ==
    [][BendReturns => tracks'[last'.ret + 1].source = Len(junctions)]_vars

=============================================================================
